---- MODULE Spec2Model ----
(***************************************************************************)
(* Model of src/app.py: the ingestion pipeline (normalize_stock_code,      *)
(* clean_and_process) and the analytics built on it (the main analysis     *)
(* block, analyze_same_day, build_price_trend_df).                         *)
(*                                                                         *)
(* Text is a sequence of one-character strings.  A missing cell (None /    *)
(* NaN / NaT) is the empty tuple where the value is optional (<<>> missing, *)
(* <<v>> present) and the tuple Missing where the value is text.           *)
(***************************************************************************)
EXTENDS Integers, Sequences, FiniteSets, TLC

VARIABLES
    \* normalize_stock_code applied twice
    npc, nx, ny, nz,
    \* clean_and_process
    pc, target_raw, target_code, nsheets, i, skip_rows, found_valid_header,
    all_data, debug_info, firstGood, result,
    \* main analysis block, analyze_same_day
    apc, merged_df, columns, target_df, total_vol, target_vol, ratio_vol,
    target_dates, mixed_days, single_days, mixed_single_ratio, same_day_table,
    price_trend_df,
    \* build_price_trend_df
    tpc, trend_in, trend_cols, trend_out

normVars == <<npc, nx, ny, nz>>
ingestVars == <<pc, target_raw, target_code, nsheets, i, skip_rows,
                found_valid_header, all_data, debug_info, firstGood, result>>
dayVars == <<apc, merged_df, columns, target_df, total_vol, target_vol,
             ratio_vol, target_dates, mixed_days, single_days,
             mixed_single_ratio, same_day_table, price_trend_df>>
trendVars == <<tpc, trend_in, trend_cols, trend_out>>
vars == <<normVars, ingestVars, dayVars, trendVars>>

----------------------------------------------------------------------------
(* Bounds of the model *)

MaxLen == 4        \* longest arbitrary input text of normalize_stock_code
MaxDigits == 7     \* longest all-digit input text of normalize_stock_code
MaxSheets == 2     \* sheets in a workbook
MaxRows == 3       \* data rows kept from a workbook
MaxRecs == 3       \* records in a merged dataset given to the analysis block
MaxTrendRecs == 2  \* target records given to build_price_trend_df

(* Program constants *)

CodeWidth == 6     \* text.zfill(6)
HeaderTries == 5   \* range(5)

----------------------------------------------------------------------------
(* Text *)

Missing == <<"nan">>
Digits == {"0", "1"}
Alphabet == {"0", "1", ".", " ", "A"}

Texts(alphabet, n) == UNION {[1..k -> alphabet] : k \in 0..n}

RECURSIVE LStrip(_)
LStrip(s) == IF s # <<>> /\ Head(s) = " " THEN LStrip(Tail(s)) ELSE s

RECURSIVE RStrip(_)
RStrip(s) ==
    IF s # <<>> /\ s[Len(s)] = " " THEN RStrip(SubSeq(s, 1, Len(s) - 1)) ELSE s

\* str.strip()
Strip(s) == RStrip(LStrip(s))

\* str.isdigit(): non-empty and every character a digit
IsDigit(s) == s # <<>> /\ \A k \in 1..Len(s) : s[k] \in Digits

\* re.fullmatch(r"\d+\.0+", text)
MatchesDotZeros(s) ==
    \E p \in 2..(Len(s) - 1) :
        /\ s[p] = "."
        /\ \A k \in 1..(p - 1) : s[k] \in Digits
        /\ \A k \in (p + 1)..Len(s) : s[k] = "0"

\* text.split(".", 1)[0]
RECURSIVE BeforeFirstDot(_)
BeforeFirstDot(s) ==
    IF s = <<>> \/ Head(s) = "." THEN <<>>
    ELSE <<Head(s)>> \o BeforeFirstDot(Tail(s))

\* text.zfill(width) for unsigned text
RECURSIVE ZFill(_, _)
ZFill(s, width) == IF Len(s) >= width THEN s ELSE ZFill(<<"0">> \o s, width)

\* a strip that removes one whitespace character from each end only
StripOnce(s) ==
    LET l == IF s # <<>> /\ Head(s) = " " THEN Tail(s) ELSE s
    IN  IF l # <<>> /\ l[Len(l)] = " " THEN SubSeq(l, 1, Len(l) - 1) ELSE l

normalize_stock_code_strip_once(value) ==
    IF value = Missing THEN <<>>
    ELSE LET text == StripOnce(value)
             cut == IF MatchesDotZeros(text) THEN BeforeFirstDot(text) ELSE text
         IN  IF IsDigit(cut) THEN ZFill(cut, CodeWidth) ELSE cut

normalize_stock_code(value) ==
    IF value = Missing THEN <<>>
    ELSE LET text == Strip(value)
             cut == IF MatchesDotZeros(text) THEN BeforeFirstDot(text) ELSE text
         IN  IF IsDigit(cut) THEN ZFill(cut, CodeWidth) ELSE cut

----------------------------------------------------------------------------
(* Numbers *)

Abs(n) == IF n < 0 THEN -n ELSE n

RECURSIVE DecimalValue(_)
DecimalValue(s) ==
    IF s = <<>> THEN 0
    ELSE 10 * DecimalValue(SubSeq(s, 1, Len(s) - 1))
         + (IF s[Len(s)] = "1" THEN 1 ELSE 0)

\* pd.to_numeric(cell, errors="coerce") of one text cell: <<n>>, or <<>> (NaN)
ToNumeric(cell) ==
    IF cell = Missing THEN <<>>
    ELSE LET text == Strip(cell)
         IN  IF IsDigit(text) THEN <<DecimalValue(text)>>
             ELSE IF MatchesDotZeros(text)
                  THEN <<DecimalValue(BeforeFirstDot(text))>>
                  ELSE <<>>

\* .fillna(0)
FillNa0(opt) == IF opt = <<>> THEN 0 ELSE opt[1]

----------------------------------------------------------------------------
(* clean_and_process *)

\* canonical column names: security code, trade quantity, trade date
ColCode == "security_code"
ColQty == "trade_qty"
ColDate == "trade_date"

\* the raw cells of one data row as read with dtype=str: a blank code cell is
\* NaN, a whitespace-only code cell is text
RawRowKinds ==
    { [code |-> Missing,      qty |-> <<"1">>],
      [code |-> <<" ">>,      qty |-> <<"A">>],
      [code |-> <<"1">>,      qty |-> <<"1", "1">>] }

\* the data rows of a sheet of at most n rows
RawSheets(n) == UNION {[1..k -> RawRowKinds] : k \in 0..n}

\* the frame of one sheet with its rows numbered in row order
Numbered(raw) ==
    [k \in 1..Len(raw) |-> [row |-> k, code |-> raw[k].code, qty |-> raw[k].qty]]

\* what pd.read_excel(header=skip_rows) followed by smart_rename_columns
\* gives for one offset: an exception, or a frame with resolved columns.
\* date_raises: the date standardisation of line 106 raises on this frame
\* (pd.to_datetime of a frame slice when two observed names resolved to the
\* date column).  The rows of a frame that is discarded are not recorded.
\* The resolved columns are a set: a frame in which two observed names
\* resolve to the security code or to the quantity is outside this model.
ReadRaises ==
    {[read |-> "raise", cols |-> {}, date_raises |-> FALSE, rows |-> <<>>]}
ReadLacking ==
    {[read |-> "ok", cols |-> c, date_raises |-> FALSE, rows |-> <<>>] :
        c \in {{}, {ColCode}, {ColQty, ColDate}}}
ReadDateRaises ==
    {[read |-> "ok", cols |-> {ColCode, ColQty, ColDate},
      date_raises |-> TRUE, rows |-> <<>>]}
ReadGood(n) ==
    {[read |-> "ok", cols |-> c, date_raises |-> FALSE, rows |-> Numbered(raw)] :
        c \in {{ColCode, ColQty}, {ColCode, ColQty, ColDate}}, raw \in RawSheets(n)}
ReadOutcomes(n) ==
    ReadRaises \cup ReadLacking \cup ReadDateRaises \cup ReadGood(n)

\* the number of rows in a list of batches
RECURSIVE RowCount(_)
RowCount(batches) ==
    IF batches = <<>> THEN 0
    ELSE Len(Head(batches).rows) + RowCount(Tail(batches))

\* "证券代码" in df.columns and "成交数量" in df.columns
HasRequired(frame) == ColCode \in frame.cols /\ ColQty \in frame.cols

NotNaCode(r) == r.code # Missing
\* df.dropna(subset=["证券代码"])
DropNaCode(rows) == SelectSeq(rows, NotNaCode)

NoOffset == HeaderTries

TargetInputs == {<<>>, <<" ", "1">>}

NoResult ==
    [kind |-> "none", merged |-> <<>>, target |-> <<>>, diagnostics |-> <<>>]

IngestIdle ==
    /\ pc = "idle" /\ target_raw = <<>> /\ target_code = <<>> /\ nsheets = 0
    /\ i = 0 /\ skip_rows = 0 /\ found_valid_header = FALSE
    /\ all_data = <<>> /\ debug_info = <<>> /\ firstGood = NoOffset
    /\ result = NoResult

IngestInit ==
    /\ pc = "start" /\ target_raw \in TargetInputs /\ target_code = <<>>
    /\ nsheets = 0 /\ i = 0 /\ skip_rows = 0 /\ found_valid_header = FALSE
    /\ all_data = <<>> /\ debug_info = <<>> /\ firstGood = NoOffset
    /\ result = NoResult

\* lines 74-76
CheckTarget ==
    /\ pc = "start"
    /\ target_code' = normalize_stock_code(target_raw)
    /\ IF target_code' = <<>>
       THEN /\ result' = [NoResult EXCEPT !.kind = "InvalidTargetCode"]
            /\ pc' = "returned"
       ELSE /\ result' = result
            /\ pc' = "open"
    /\ UNCHANGED <<target_raw, nsheets, i, skip_rows, found_valid_header,
                   all_data, debug_info, firstGood>>

\* lines 78-81: pd.ExcelFile raises
OpenFails ==
    /\ pc = "open"
    /\ result' = [NoResult EXCEPT !.kind = "UnreadableWorkbook"]
    /\ pc' = "returned"
    /\ UNCHANGED <<target_raw, target_code, nsheets, i, skip_rows,
                   found_valid_header, all_data, debug_info, firstGood>>

\* lines 78-93: the workbook opens; the loop enters its first sheet
OpenWorkbook ==
    /\ pc = "open"
    /\ nsheets' \in 1..MaxSheets
    /\ i' = 1 /\ skip_rows' = 0 /\ found_valid_header' = FALSE
    /\ all_data' = <<>> /\ debug_info' = <<>> /\ firstGood' = NoOffset
    /\ pc' = "offsets"
    /\ UNCHANGED <<target_raw, target_code, result>>

\* the frame is kept: lines 100-111
KeepsFrame(frame) == frame.read = "ok" /\ HasRequired(frame) /\ ~frame.date_raises

\* a pass that keeps the frame and goes on to the next offset
TryOffsetWith_no_break(frame) ==
    /\ firstGood' = IF firstGood = NoOffset /\ frame.read = "ok" /\ HasRequired(frame)
                    THEN skip_rows ELSE firstGood
    /\ IF KeepsFrame(frame)
       THEN /\ all_data' = Append(all_data,
                                  [sheet |-> i, rows |-> DropNaCode(frame.rows)])
            /\ found_valid_header' = TRUE
            /\ debug_info' = Append(debug_info,
                   [sheet |-> i, outcome |-> "matched", offset |-> skip_rows,
                    cols_found |-> "n/a"])
       ELSE UNCHANGED <<all_data, found_valid_header, debug_info>>
    /\ skip_rows' = skip_rows + 1
    /\ pc' = IF skip_rows' = HeaderTries THEN "sheet_end" ELSE "offsets"
    /\ UNCHANGED <<target_raw, target_code, nsheets, i, result>>

\* lines 94-113: one pass of the header-offset loop for sheet i
TryOffsetWith(frame) ==
    /\ firstGood' = IF firstGood = NoOffset /\ frame.read = "ok" /\ HasRequired(frame)
                    THEN skip_rows ELSE firstGood
    /\ IF KeepsFrame(frame)
       THEN /\ all_data' = Append(all_data,
                                  [sheet |-> i, rows |-> DropNaCode(frame.rows)])
            /\ found_valid_header' = TRUE
            /\ debug_info' = Append(debug_info,
                   [sheet |-> i, outcome |-> "matched", offset |-> skip_rows,
                    cols_found |-> "n/a"])
            /\ skip_rows' = skip_rows
            /\ pc' = "sheet_end"
       ELSE /\ skip_rows' = skip_rows + 1
            /\ pc' = IF skip_rows' = HeaderTries THEN "sheet_end" ELSE "offsets"
            /\ UNCHANGED <<all_data, found_valid_header, debug_info>>
    /\ UNCHANGED <<target_raw, target_code, nsheets, i, result>>

TryOffset ==
    /\ pc = "offsets"
    /\ skip_rows < HeaderTries
    /\ \E frame \in ReadOutcomes(MaxRows - RowCount(all_data)) :
           TryOffsetWith(frame)

\* lines 115-123: the diagnostic of a sheet without a header, then the next
\* sheet or the end of the loop
SheetEnd ==
    /\ pc = "sheet_end"
    /\ IF ~found_valid_header
       THEN \E cols_found \in {"columns", "unreadable"} :
                debug_info' = Append(debug_info,
                    [sheet |-> i, outcome |-> "unmatched", offset |-> NoOffset,
                     cols_found |-> cols_found])
       ELSE debug_info' = debug_info
    /\ IF i < nsheets
       THEN /\ i' = i + 1 /\ skip_rows' = 0 /\ found_valid_header' = FALSE
            /\ firstGood' = NoOffset
            /\ pc' = "offsets"
       ELSE /\ pc' = "merge"
            /\ firstGood' = NoOffset
            /\ UNCHANGED <<i, skip_rows, found_valid_header>>
    /\ UNCHANGED <<target_raw, target_code, nsheets, all_data, result>>

\* a concatenation that puts each later batch in front
RECURSIVE Concat_newest_first(_)
Concat_newest_first(batches) ==
    IF batches = <<>> THEN <<>>
    ELSE Concat_newest_first(Tail(batches))
         \o [k \in 1..Len(Head(batches).rows) |->
                [sheet |-> Head(batches).sheet,
                 row |-> Head(batches).rows[k].row,
                 code |-> Head(batches).rows[k].code,
                 qty |-> Head(batches).rows[k].qty]]

\* pd.concat(all_data, ignore_index=True): every batch's rows, tagged with
\* the sheet they came from
RECURSIVE Concat(_)
Concat(batches) ==
    IF batches = <<>> THEN <<>>
    ELSE [k \in 1..Len(Head(batches).rows) |->
             [sheet |-> Head(batches).sheet,
              row |-> Head(batches).rows[k].row,
              code |-> Head(batches).rows[k].code,
              qty |-> Head(batches).rows[k].qty]]
         \o Concat(Tail(batches))

\* lines 135-136: the final conversion of one record
Convert(r) ==
    [sheet |-> r.sheet, row |-> r.row,
     code |-> normalize_stock_code(r.code),
     qty |-> FillNa0(ToNumeric(r.qty))]

\* a merge that reports the failure when the target has no record
Merge_fail_on_empty_target ==
    /\ pc = "merge"
    /\ LET cat == Concat(all_data)
           merged == [k \in 1..Len(cat) |-> Convert(cat[k])]
           IsTarget(r) == r.code = target_code
       IN  IF SelectSeq(merged, IsTarget) = <<>>
           THEN result' = [kind |-> "NoMatchingSheets", merged |-> <<>>,
                           target |-> <<>>, diagnostics |-> debug_info]
           ELSE result' = [kind |-> "ok", merged |-> merged,
                           target |-> SelectSeq(merged, IsTarget),
                           diagnostics |-> <<>>]
    /\ pc' = "returned"
    /\ UNCHANGED <<target_raw, target_code, nsheets, i, skip_rows,
                   found_valid_header, all_data, debug_info, firstGood>>

\* lines 128-146
Merge ==
    /\ pc = "merge"
    /\ IF all_data = <<>>
       THEN result' = [kind |-> "NoMatchingSheets", merged |-> <<>>,
                       target |-> <<>>, diagnostics |-> debug_info]
       ELSE LET cat == Concat(all_data)
                merged == [k \in 1..Len(cat) |-> Convert(cat[k])]
                IsTarget(r) == r.code = target_code
            IN  result' = [kind |-> "ok", merged |-> merged,
                           target |-> SelectSeq(merged, IsTarget),
                           diagnostics |-> <<>>]
    /\ pc' = "returned"
    /\ UNCHANGED <<target_raw, target_code, nsheets, i, skip_rows,
                   found_valid_header, all_data, debug_info, firstGood>>

IngestNext ==
    \/ CheckTarget \/ OpenFails \/ OpenWorkbook \/ TryOffset \/ SheetEnd \/ Merge

----------------------------------------------------------------------------
(* normalize_stock_code applied to its own result *)

NormInputs == Texts(Alphabet, MaxLen) \cup Texts(Digits, MaxDigits) \cup {Missing}

NormIdle == npc = "idle" /\ nx = <<>> /\ ny = <<>> /\ nz = <<>>

NormInit == npc = "input" /\ nx \in NormInputs /\ ny = <<>> /\ nz = <<>>

NormalizeOnce ==
    /\ npc = "input"
    /\ ny' = normalize_stock_code(nx)
    /\ npc' = "once"
    /\ UNCHANGED <<nx, nz>>

NormalizeAgain ==
    /\ npc = "once"
    /\ nz' = normalize_stock_code(ny)
    /\ npc' = "twice"
    /\ UNCHANGED <<nx, ny>>

NormNext == NormalizeOnce \/ NormalizeAgain

----------------------------------------------------------------------------
(* The merged dataset as the analytics see it.  A record has every          *)
(* canonical field; the field of a column the dataset lacks, and a NaN /    *)
(* NaT cell, is <<>>, a present value v is <<v>>.  The quantity is a number *)
(* (line 136 leaves no NaN).  A quotient n/d is kept exact, as <<n, d>>.    *)

ColAmount == "trade_amount"
ColPrice == "trade_price"
ColDirection == "direction"

TargetCode == normalize_stock_code(<<"1">>)
OtherCode == <<"A">>

Dates == {1, 2}
\* the cells of a column: all missing when the dataset lacks the column
Cells(col, cols, values) == IF col \in cols THEN values ELSE {<<>>}

Records(codes, qtys, cols, amounts, prices) ==
    [code : codes, qty : qtys,
     date : Cells(ColDate, cols, {<<>>} \cup {<<d>> : d \in Dates}),
     amount : Cells(ColAmount, cols, amounts),
     price : Cells(ColPrice, cols, prices),
     direction : Cells(ColDirection, cols, {<<"buy">>, <<"sell">>})]

Datasets(records, n) == UNION {[1..k -> records] : k \in 0..n}

RECURSIVE SumSeq(_)
SumSeq(s) == IF s = <<>> THEN 0 ELSE Head(s) + SumSeq(Tail(s))

\* df["成交数量"].abs().sum()
AbsVolume(df) == SumSeq([k \in 1..Len(df) |-> Abs(df[k].qty)])

\* the set's elements in ascending order
RECURSIVE Ascending(_)
Ascending(S) ==
    IF S = {} THEN <<>>
    ELSE LET m == CHOOSE x \in S : \A y \in S : x <= y
         IN  <<m>> \o Ascending(S \ {m})

\* Series.unique(): the values in order of first appearance
RECURSIVE Unique(_)
Unique(s) ==
    IF s = <<>> THEN <<>>
    ELSE LET init == Unique(SubSeq(s, 1, Len(s) - 1))
             last == s[Len(s)]
         IN  IF \E k \in 1..Len(init) : init[k] = last THEN init
             ELSE Append(init, last)

\* round(x, 2) of x = n/d*100 in hundredths of a percent, ties to even
RoundHalfEven(n, d) ==
    LET q == n \div d
        r == n % d
    IN  IF 2 * r < d THEN q
        ELSE IF 2 * r > d THEN q + 1
        ELSE IF q % 2 = 0 THEN q ELSE q + 1

HasDate(r) == r.date # <<>>
\* df.dropna(subset=["交易日期"])
DropNaDate(df) == SelectSeq(df, HasDate)

\* a target date list that keeps the missing date
TargetDates_keep_missing(tdf) == Unique([k \in 1..Len(tdf) |-> tdf[k].date])

\* line 258: target_df["交易日期"].dropna().unique()
TargetDates(tdf) ==
    LET dated == DropNaDate(tdf)
    IN  Unique([k \in 1..Len(dated) |-> dated[k].date])

\* a comparison with a date cell; a missing cell equals nothing
OnDate(r, date) == r.date # <<>> /\ r.date = date

\* the tallies of a loop that collects the day's codes from the target's
\* own records
ClassifyDays_target_only(full_df, dates) ==
    [mixed |-> 0, single |-> Len(dates)]

\* lines 261-267
ClassifyDays(full_df, dates) ==
    LET day_codes(date) ==
            {full_df[k].code : k \in {j \in 1..Len(full_df) : OnDate(full_df[j], date)}}
        mixed == {k \in 1..Len(dates) : Cardinality(day_codes(dates[k])) > 1}
    IN  [mixed |-> Cardinality(mixed), single |-> Len(dates) - Cardinality(mixed)]

\* lines 150-172; the caller passes a frame that has the date column
analyze_same_day(full_df, tcode, target_date_list) ==
    LET InList(r) == \E k \in 1..Len(target_date_list) :
                        OnDate(r, target_date_list[k])
        daily_df == SelectSeq(full_df, InList)
        keys == Ascending({daily_df[k].date[1] : k \in 1..Len(daily_df)})
        total(d) == SumSeq([k \in 1..Len(daily_df) |->
                        IF daily_df[k].date = <<d>> THEN Abs(daily_df[k].qty) ELSE 0])
        target(d) == SumSeq([k \in 1..Len(daily_df) |->
                        IF daily_df[k].date = <<d>> /\ daily_df[k].code = tcode
                        THEN Abs(daily_df[k].qty) ELSE 0])
    IN  [k \in 1..Len(keys) |->
            [date |-> keys[k],
             total |-> total(keys[k]),
             target |-> target(keys[k]),
             share |-> IF total(keys[k]) = 0 THEN <<>>
                       ELSE <<RoundHalfEven(target(keys[k]) * 10000, total(keys[k]))>>]]

----------------------------------------------------------------------------
(* build_price_trend_df *)

NoTrend == [rows |-> <<>>, tier |-> "none", source |-> "none", note |-> "not run"]
EmptyTrend(note) == [rows |-> <<>>, tier |-> "none", source |-> "none", note |-> note]

IsBuy(r) == r.direction = <<"buy">>
HasAmount(r) == r.amount # <<>>
HasPrice(r) == r.price # <<>>
\* both fields parse and the quantity magnitude is not zero
Weighable(r) == r.amount # <<>> /\ Abs(r.qty) > 0

\* groupby("交易日期") of a frame: one row per date, ascending, with the sum
\* of num over the sum of den
GroupQuotient(df, num, den) ==
    LET keys == Ascending({df[k].date[1] : k \in 1..Len(df)})
    IN  [j \in 1..Len(keys) |->
            [date |-> keys[j],
             avg |-> << SumSeq([k \in 1..Len(df) |->
                            IF df[k].date = <<keys[j]>> THEN num[k] ELSE 0]),
                        SumSeq([k \in 1..Len(df) |->
                            IF df[k].date = <<keys[j]>> THEN den[k] ELSE 0]) >>]]

\* the columns of a frame the quotients are taken of
AmountOf(df) == [k \in 1..Len(df) |-> df[k].amount[1]]
AbsQtyOf(df) == [k \in 1..Len(df) |-> Abs(df[k].qty)]
PriceOf(df) == [k \in 1..Len(df) |-> df[k].price[1]]
One(df) == [k \in 1..Len(df) |-> 1]

\* lines 219-232
PriceMeanTier(work_df, cols, source_desc) ==
    IF ColPrice \notin cols THEN EmptyTrend("no price or amount column")
    ELSE LET temp == SelectSeq(work_df, HasPrice)
         IN  IF temp = <<>> THEN EmptyTrend("prices all empty")
             ELSE [rows |-> GroupQuotient(temp, PriceOf(temp), One(temp)), tier |-> "B",
                   source |-> source_desc, note |-> "simple mean of price"]

\* a variant that takes the weighted tier only when every record has an amount
build_price_trend_df_all_amounts(tdf, cols) ==
    IF ColDate \notin cols THEN EmptyTrend("no date column")
    ELSE LET dated == DropNaDate(tdf)
             buys == SelectSeq(dated, IsBuy)
             use_buys == ColDirection \in cols /\ buys # <<>>
             work_df == IF use_buys THEN buys ELSE dated
             source_desc == IF use_buys THEN "buy" ELSE "all"
             temp == SelectSeq(work_df, Weighable)
         IN  IF dated = <<>> THEN EmptyTrend("no dated target rows")
             ELSE IF /\ ColAmount \in cols
                     /\ \A k \in 1..Len(work_df) : HasAmount(work_df[k])
                     /\ temp # <<>>
                  THEN [rows |-> GroupQuotient(temp, AmountOf(temp), AbsQtyOf(temp)),
                        tier |-> "A", source |-> source_desc,
                        note |-> "amount over quantity"]
                  ELSE PriceMeanTier(work_df, cols, source_desc)

\* lines 176-217
build_price_trend_df(tdf, cols) ==
    IF ColDate \notin cols THEN EmptyTrend("no date column")
    ELSE LET dated == DropNaDate(tdf)
             buys == SelectSeq(dated, IsBuy)
             use_buys == ColDirection \in cols /\ buys # <<>>
             work_df == IF use_buys THEN buys ELSE dated
             source_desc == IF use_buys THEN "buy" ELSE "all"
             temp == SelectSeq(work_df, Weighable)
         IN  IF dated = <<>> THEN EmptyTrend("no dated target rows")
             ELSE IF /\ ColAmount \in cols
                     /\ \E k \in 1..Len(work_df) : HasAmount(work_df[k])
                     /\ temp # <<>>
                  THEN [rows |-> GroupQuotient(temp, AmountOf(temp), AbsQtyOf(temp)),
                        tier |-> "A", source |-> source_desc,
                        note |-> "amount over quantity"]
                  ELSE PriceMeanTier(work_df, cols, source_desc)

TrendColumnSets == SUBSET {ColDate, ColAmount, ColPrice, ColDirection}

TrendInit ==
    /\ tpc = "start"
    /\ trend_cols \in TrendColumnSets
    /\ trend_in \in Datasets(Records({TargetCode}, {0, -2}, trend_cols,
                                       {<<>>, <<6>>}, {<<>>, <<4>>}),
                               MaxTrendRecs)
    /\ trend_out = NoTrend

\* line 277
BuildPriceTrend ==
    /\ tpc = "start"
    /\ trend_out' = build_price_trend_df(trend_in, trend_cols)
    /\ tpc' = "done"
    /\ UNCHANGED <<trend_in, trend_cols>>

TrendNext == BuildPriceTrend

----------------------------------------------------------------------------
(* The main analysis block, on the dataset clean_and_process returned *)

DayColumnSets == SUBSET {ColDate, ColPrice}

IsTargetRecord(r) == r.code = TargetCode

DayInit ==
    /\ apc = "start"
    /\ columns \in DayColumnSets
    /\ merged_df \in Datasets(Records({TargetCode, OtherCode}, {0, -2}, columns,
                                        {<<>>}, {<<4>>}),
                                MaxRecs)
    /\ target_df = SelectSeq(merged_df, IsTargetRecord)
    /\ total_vol = 0 /\ target_vol = 0 /\ ratio_vol = <<>>
    /\ target_dates = <<>> /\ mixed_days = 0 /\ single_days = 0
    /\ mixed_single_ratio = <<>> /\ same_day_table = <<>>
    /\ price_trend_df = NoTrend

\* lines 243-245: st.stop()
EmptyTargetStop ==
    /\ apc = "start"
    /\ target_df = <<>>
    /\ apc' = "stopped"
    /\ UNCHANGED <<merged_df, columns, target_df, total_vol, target_vol,
                   ratio_vol, target_dates, mixed_days, single_days,
                   mixed_single_ratio, same_day_table, price_trend_df>>

\* lines 247-250
BasicMetrics ==
    /\ apc = "start"
    /\ target_df # <<>>
    /\ total_vol' = AbsVolume(merged_df)
    /\ target_vol' = AbsVolume(target_df)
    /\ ratio_vol' = IF total_vol' > 0 THEN <<target_vol' * 100, total_vol'>>
                    ELSE <<0, 1>>
    /\ apc' = "same_day"
    /\ UNCHANGED <<merged_df, columns, target_df, target_dates, mixed_days,
                   single_days, mixed_single_ratio, same_day_table,
                   price_trend_df>>

\* lines 252-274
SameDay ==
    /\ apc = "same_day"
    /\ IF ColDate \in columns
       THEN /\ target_dates' = TargetDates(target_df)
            /\ mixed_days' = ClassifyDays(merged_df, target_dates').mixed
            /\ single_days' = ClassifyDays(merged_df, target_dates').single
            /\ same_day_table' =
                   analyze_same_day(merged_df, TargetCode, target_dates')
       ELSE /\ target_dates' = <<>>
            /\ mixed_days' = 0 /\ single_days' = 0
            /\ same_day_table' = <<>>
    /\ mixed_single_ratio' = IF single_days' > 0
                             THEN <<mixed_days' * 100, single_days'>>
                             ELSE <<0, 1>>
    /\ apc' = "trend"
    /\ UNCHANGED <<merged_df, columns, target_df, total_vol, target_vol,
                   ratio_vol, price_trend_df>>

\* lines 276-277
PriceTrend ==
    /\ apc = "trend"
    /\ price_trend_df' = build_price_trend_df(target_df, columns)
    /\ apc' = "done"
    /\ UNCHANGED <<merged_df, columns, target_df, total_vol, target_vol,
                   ratio_vol, target_dates, mixed_days, single_days,
                   mixed_single_ratio, same_day_table>>

DayNext == EmptyTargetStop \/ BasicMetrics \/ SameDay \/ PriceTrend

----------------------------------------------------------------------------
(* Specifications *)

DayIdle ==
    /\ apc = "idle" /\ merged_df = <<>> /\ columns = {} /\ target_df = <<>>
    /\ total_vol = 0 /\ target_vol = 0 /\ ratio_vol = <<>>
    /\ target_dates = <<>> /\ mixed_days = 0 /\ single_days = 0
    /\ mixed_single_ratio = <<>> /\ same_day_table = <<>>
    /\ price_trend_df = NoTrend

TrendIdle ==
    tpc = "idle" /\ trend_in = <<>> /\ trend_cols = {} /\ trend_out = NoTrend

\* clean_and_process
Init == IngestInit /\ NormIdle /\ DayIdle /\ TrendIdle
Next == IngestNext /\ UNCHANGED <<normVars, dayVars, trendVars>>
Spec == Init /\ [][Next]_vars

\* normalize_stock_code
InitNorm == NormInit /\ IngestIdle /\ DayIdle /\ TrendIdle
NextNorm == NormNext /\ UNCHANGED <<ingestVars, dayVars, trendVars>>
SpecNorm == InitNorm /\ [][NextNorm]_vars

\* build_price_trend_df
InitTrend == TrendInit /\ IngestIdle /\ NormIdle /\ DayIdle
NextTrend == TrendNext /\ UNCHANGED <<ingestVars, normVars, dayVars>>
SpecTrend == InitTrend /\ [][NextTrend]_vars

\* the main analysis block
InitDay == DayInit /\ IngestIdle /\ NormIdle /\ TrendIdle
NextDay == DayNext /\ UNCHANGED <<ingestVars, normVars, trendVars>>
SpecDay == InitDay /\ [][NextDay]_vars

----------------------------------------------------------------------------
(* Properties of clean_and_process (Spec) *)

MatchedSheets == {k \in 1..Len(debug_info) : debug_info[k].outcome = "matched"}
BatchesOf(sheet) == {b \in 1..Len(all_data) : all_data[b].sheet = sheet}
LoopOver == nsheets > 0 /\ pc \in {"merge", "returned"}

\* C1: when the search of a sheet ends, the sheet is matched at the smallest
\* offset whose read succeeded with both required columns resolved, and no
\* higher offset was attempted after that one.
C1_StopsAtFirstGoodOffset ==
    (pc = "sheet_end" /\ firstGood # NoOffset) =>
        /\ found_valid_header
        /\ debug_info[Len(debug_info)].outcome = "matched"
        /\ debug_info[Len(debug_info)].offset = firstGood
        /\ skip_rows = firstGood

\* C2 (state part): after the loop the diagnostics hold one entry per
\* sheet, in document order; an entry is matched exactly when its sheet
\* contributed one batch, and an unmatched sheet contributed none.
C2_OnePerSheet ==
    LoopOver =>
        /\ Len(debug_info) = nsheets
        /\ \A k \in 1..nsheets :
            /\ debug_info[k].sheet = k
            /\ debug_info[k].outcome \in {"matched", "unmatched"}
            /\ debug_info[k].outcome = "matched" <=> Cardinality(BatchesOf(k)) = 1
            /\ debug_info[k].outcome = "unmatched" <=> BatchesOf(k) = {}

\* C2 (step part): no step changes a diagnostic or a batch that is already
\* recorded, so a sheet leaves the entries of the other sheets as they are.
C2_OthersUntouched ==
    /\ Len(debug_info') >= Len(debug_info)
    /\ \A k \in 1..Len(debug_info) : debug_info'[k] = debug_info[k]
    /\ Len(all_data') >= Len(all_data)
    /\ \A b \in 1..Len(all_data) : all_data'[b] = all_data[b]

\* C2: one diagnostic per sheet whatever happened to the sheets, matched
\* exactly for the sheets that contributed a batch, and no sheet changes
\* what another sheet recorded.
C2_DiagnosticsPerSheet == [](C2_OnePerSheet) /\ [][C2_OthersUntouched]_vars

C2_Witness ==
    /\ pc = "returned" /\ nsheets = 2
    /\ debug_info[1].outcome = "unmatched" /\ debug_info[1].cols_found = "unreadable"
    /\ debug_info[2].outcome = "matched" /\ debug_info[2].offset = 2
    /\ Len(all_data) = 1 /\ Len(all_data[1].rows) = 2

C4_NoEmptyCode ==
    (pc = "returned" /\ result.kind = "ok") =>
        \A k \in 1..Len(result.merged) : result.merged[k].code # <<>>

\* C10: the merged dataset has as many records as the batches have rows,
\* in sheet order and, within a sheet, in row order, and is made of exactly
\* the rows of the batches.
C10_MergeKeepsOrder ==
    (pc = "returned" /\ result.kind = "ok") =>
        LET m == result.merged
        IN  /\ Len(m) = RowCount(all_data)
            /\ \A a, b \in 1..Len(m) :
                a < b => \/ m[a].sheet < m[b].sheet
                         \/ m[a].sheet = m[b].sheet /\ m[a].row < m[b].row
            /\ \A b \in 1..Len(all_data) : \A j \in 1..Len(all_data[b].rows) :
                \E k \in 1..Len(m) :
                    /\ m[k].sheet = all_data[b].sheet
                    /\ m[k].row = all_data[b].rows[j].row
                    /\ m[k].code = normalize_stock_code(all_data[b].rows[j].code)

C10_Witness ==
    /\ pc = "returned" /\ result.kind = "ok"
    /\ Len(all_data) = 2
    /\ Len(all_data[1].rows) = 1 /\ all_data[1].rows[1].row = 2
    /\ Len(all_data[2].rows) = 2

----------------------------------------------------------------------------
(* Properties of the main analysis block (SpecDay) *)

RECURSIVE SumOver(_, _)
\* the sum of f over the index set S
SumOver(S, f) ==
    IF S = {} THEN 0
    ELSE LET k == CHOOSE x \in S : TRUE IN f[k] + SumOver(S \ {k}, f)

Rows == 1..Len(merged_df)
AbsQty == [k \in Rows |-> Abs(merged_df[k].qty)]
TargetTraded(d) ==
    \E k \in Rows : merged_df[k].code = TargetCode /\ merged_df[k].date = <<d>>
OtherTraded(d) ==
    \E k \in Rows : merged_df[k].code # TargetCode /\ merged_df[k].date = <<d>>
Classified == apc \in {"trend", "done"}

\* C5: a row of the same-day table whose total volume is 0 has share 0, and
\* a row with a positive total has share target/total*100 (two decimals).
C5_ZeroTotalZeroShare ==
    Classified =>
        \A k \in 1..Len(same_day_table) :
            LET row == same_day_table[k]
            IN  /\ row.total = 0 => row.share = <<0>>
                /\ row.total > 0 =>
                       row.share = <<RoundHalfEven(row.target * 10000, row.total)>>

\* C6: every date the target traded is counted once, as mixed when another
\* security traded that date too and as single otherwise; other dates are
\* counted in neither tally.
C6_MixedSingle ==
    Classified =>
        /\ mixed_days =
               Cardinality({d \in Dates : TargetTraded(d) /\ OtherTraded(d)})
        /\ single_days =
               Cardinality({d \in Dates : TargetTraded(d) /\ ~OtherTraded(d)})

C6_Witness ==
    /\ apc = "done" /\ mixed_days = 1 /\ single_days = 1
    /\ \E d \in Dates : OtherTraded(d)

\* C8: a record without a date is in no date-keyed output (the target's
\* dates, the same-day table and its volumes, the tallies, the price trend)
\* and its quantity is in the total and the target volume.
C8_MissingDate ==
    apc = "done" =>
        /\ \A k \in 1..Len(target_dates) : target_dates[k] # <<>>
        /\ \A k \in 1..Len(same_day_table) :
            LET row == same_day_table[k]
                on == {j \in Rows : merged_df[j].date = <<row.date>>}
            IN  /\ row.date \in Dates
                /\ row.total = SumOver(on, AbsQty)
                /\ row.target =
                       SumOver({j \in on : merged_df[j].code = TargetCode}, AbsQty)
        /\ mixed_days + single_days = Cardinality({d \in Dates : TargetTraded(d)})
        /\ \A k \in 1..Len(price_trend_df.rows) :
            /\ price_trend_df.rows[k].date \in Dates
            /\ price_trend_df.rows[k].avg[2] =
                   Cardinality({j \in Rows :
                       /\ merged_df[j].code = TargetCode
                       /\ merged_df[j].date = <<price_trend_df.rows[k].date>>
                       /\ merged_df[j].price # <<>>})
        /\ total_vol = SumOver(Rows, AbsQty)
        /\ target_vol =
               SumOver({j \in Rows : merged_df[j].code = TargetCode}, AbsQty)

C8_Witness ==
    /\ apc = "done" /\ ColDate \in columns /\ ColPrice \in columns
    /\ \E j \in Rows :
        /\ merged_df[j].code = TargetCode /\ merged_df[j].date = <<>>
        /\ merged_df[j].qty # 0 /\ merged_df[j].price # <<>>
    /\ same_day_table # <<>> /\ price_trend_df.rows # <<>>

----------------------------------------------------------------------------
(* Properties of build_price_trend_df (SpecTrend) *)

TrendRows == 1..Len(trend_in)
DatedRows == {k \in TrendRows : trend_in[k].date # <<>>}
BuyRows == {k \in DatedRows : trend_in[k].direction = <<"buy">>}
Subset == IF BuyRows # {} THEN BuyRows ELSE DatedRows
TierARows == {k \in Subset : trend_in[k].amount # <<>> /\ trend_in[k].qty # 0}
TierBRows == {k \in Subset : trend_in[k].price # <<>>}
DatesOf(S) == {trend_in[k].date[1] : k \in S}
OutDates == {trend_out.rows[k].date : k \in 1..Len(trend_out.rows)}
AmountAt == [k \in TrendRows |-> IF trend_in[k].amount = <<>> THEN 0
                                  ELSE trend_in[k].amount[1]]
PriceAt == [k \in TrendRows |-> IF trend_in[k].price = <<>> THEN 0
                                 ELSE trend_in[k].price[1]]
TrendAbsQty == [k \in TrendRows |-> Abs(trend_in[k].qty)]
OnTrendDate(S, d) == {k \in S : trend_in[k].date = <<d>>}

\* C7: the series is tier A (per date, sum of amount over sum of |quantity|
\* of the subset's records that have an amount and a nonzero quantity)
\* whenever such a record exists, tier B (per date, mean of the prices)
\* only when none exists, never both, and empty with a note when neither
\* tier has data.
C7_OneTier ==
    tpc = "done" =>
        /\ Cardinality(OutDates) = Len(trend_out.rows)
        /\ TierARows # {} =>
            /\ trend_out.tier = "A"
            /\ OutDates = DatesOf(TierARows)
            /\ \A k \in 1..Len(trend_out.rows) :
                LET on == OnTrendDate(TierARows, trend_out.rows[k].date)
                IN  trend_out.rows[k].avg =
                        <<SumOver(on, AmountAt), SumOver(on, TrendAbsQty)>>
        /\ (TierARows = {} /\ TierBRows # {}) =>
            /\ trend_out.tier = "B"
            /\ OutDates = DatesOf(TierBRows)
            /\ \A k \in 1..Len(trend_out.rows) :
                LET on == OnTrendDate(TierBRows, trend_out.rows[k].date)
                IN  trend_out.rows[k].avg = <<SumOver(on, PriceAt), Cardinality(on)>>
        /\ (TierARows = {} /\ TierBRows = {}) =>
            /\ trend_out.rows = <<>> /\ trend_out.tier = "none"
            /\ trend_out.note # "not run"

C7_Witness ==
    /\ tpc = "done" /\ trend_out.tier = "A"
    /\ Cardinality(TierARows) = 1
    /\ \E k \in Subset : k \notin TierARows /\ k \in TierBRows

----------------------------------------------------------------------------
(* Property of normalize_stock_code (SpecNorm) *)

\* C9: normalising a normalised code changes nothing.
C9_Idempotent == npc = "twice" => nz = ny

C9_Witness ==
    /\ npc = "twice"
    /\ nx = <<" ", "1", ".", "0">>
    /\ ny = <<"0", "0", "0", "0", "0", "1">>

====
